---- MODULE Spec2Model ----
(***************************************************************************)
(* Restaurant order scheduling (os.py): the Order record, the three        *)
(* schedulers (fcfs_scheduler, priority_scheduler,                         *)
(* enhanced_round_robin_scheduling) and the "Start Scheduling" handler of  *)
(* streamlit_app that selects one of them for the batch loaded from the    *)
(* CSV file.  Every loop iteration of a scheduler is one step.             *)
(***************************************************************************)
EXTENDS Integers, Sequences, FiniteSets, TLC

\* ---------------------------------------------------------------- bounds
MaxOrders == 2
MaxPrep == 8
MaxSlice == 5
MaxBatchPrep == 2

\* ------------------------------------------------------ program constants
HighPriority == 2
NormalPriority == 1
PeakFactor == 2
DefaultSlice == 5

Stations == {"Grill", "Fryers"}
\* The form offers 0, 1, 2; a row of orders.csv may hold any integer.
Priorities == 0 .. (HighPriority + 1)
\* No run advances the clock past the total work of the largest batch.
MaxClock == MaxOrders * MaxPrep

VARIABLES
    orders,            \* the Order objects of the batch, by position in the list passed in
    input,             \* the batch as it was when the request was made (history)
    request,           \* "app" (Start Scheduling button) or the scheduler called directly
    supplied_slice,    \* the time_slice argument as supplied (history)
    peak_hour,         \* the peak_hour argument
    time_slice,        \* the local time_slice of the round-robin run
    pc,                \* "idle", "loop", "returned", "saved"
    algo,              \* the scheduler running: "none", "fcfs", "priority", "rr"
    current_time,      \* the scheduler's clock
    completed_orders,  \* the completed list (positions in orders)
    sorted_orders,     \* the list the for loop of FCFS / Priority iterates
    next_i,            \* position of that for loop
    order_queue,       \* the deque of round-robin
    station_loads,     \* the station -> count dict of round-robin
    dispatch_log,      \* one entry per round-robin dequeue (history)
    csv                \* the rows of orders.csv

vars == <<orders, input, request, supplied_slice, peak_hour, time_slice, pc, algo,
          current_time, completed_orders, sorted_orders, next_i, order_queue,
          station_loads, dispatch_log, csv>>

\* ------------------------------------------------------------------ Order
Order(order_id, customer_name, order_type, preparation_time, station, priority) ==
    [order_id         |-> order_id,
     customer_name    |-> customer_name,
     order_type       |-> order_type,
     preparation_time |-> preparation_time,
     station          |-> station,
     priority         |-> priority,
     wait_time        |-> 0,
     turnaround_time  |-> 0,
     completion_time  |-> 0,
     arrival_time     |-> 0]

Positions(os) == [i \in 1 .. Len(os) |-> i]

\* FullService with the completion computed from the preparation time alone.
FullServiceNoClock(o, t) ==
    [o EXCEPT !.arrival_time    = t,
              !.completion_time = o.preparation_time,
              !.wait_time       = t,
              !.turnaround_time = o.preparation_time - t]

\* FullService that uses up the preparation time it serves.
FullServiceConsume(o, t) ==
    [o EXCEPT !.arrival_time     = t,
              !.completion_time  = t + o.preparation_time,
              !.wait_time        = t,
              !.turnaround_time  = o.preparation_time,
              !.preparation_time = 0]

\* The body of the for loop of fcfs_scheduler and of priority_scheduler for one
\* order, at clock t: the order is served in full.
FullService(o, t) ==
    LET arrival    == t
        completion == t + o.preparation_time
    IN  [o EXCEPT !.arrival_time    = arrival,
                  !.completion_time = completion,
                  !.wait_time       = arrival,
                  !.turnaround_time = completion - arrival]

\* ------------------------------------------------------------------- FCFS
\* FCFSOrder walking the list from its end.
FCFSOrderReversed(os) == [i \in 1 .. Len(os) |-> Len(os) + 1 - i]

\* "for order in orders": the input list in its own order.
FCFSOrder(os) == Positions(os)

\* fcfs_scheduler as a function of its argument: the for loop from position k
\* on, with the clock at t and the completed list done.
RECURSIVE FCFSLoop(_, _, _, _)
FCFSLoop(os, k, t, done) ==
    IF k > Len(FCFSOrder(os))
    THEN [orders |-> os, completed_orders |-> done, current_time |-> t]
    ELSE LET i == FCFSOrder(os)[k]
         IN  FCFSLoop([os EXCEPT ![i] = FullService(os[i], t)], k + 1,
                      t + os[i].preparation_time, Append(done, i))

fcfs_scheduler(os) == FCFSLoop(os, 1, 0, <<>>)

\* --------------------------------------------------------------- Priority
\* InsertByPriority without reverse=True: ascending.
InsertAscending(os, i, s) ==
    LET k == Cardinality({j \in 1 .. Len(s) : os[s[j]].priority < os[i].priority})
    IN  SubSeq(s, 1, k) \o <<i>> \o SubSeq(s, k + 1, Len(s))

\* InsertByPriority that puts an order behind later orders of its priority.
InsertUnstable(os, i, s) ==
    LET k == Cardinality({j \in 1 .. Len(s) : os[s[j]].priority >= os[i].priority})
    IN  SubSeq(s, 1, k) \o <<i>> \o SubSeq(s, k + 1, Len(s))

\* sorted(orders, key=priority, reverse=True): a stable sort, descending.
\* Inserting position i in front of an already sorted tail keeps i ahead of
\* every later order of the same priority.
InsertByPriority(os, i, s) ==
    LET k == Cardinality({j \in 1 .. Len(s) : os[s[j]].priority > os[i].priority})
    IN  SubSeq(s, 1, k) \o <<i>> \o SubSeq(s, k + 1, Len(s))

RECURSIVE SortFrom(_, _)
SortFrom(os, i) ==
    IF i > Len(os) THEN <<>> ELSE InsertByPriority(os, i, SortFrom(os, i + 1))

SortedOrders(os) == SortFrom(os, 1)

\* ------------------------------------------------------------ Round robin
\* InitialStationLoads keyed by every kitchen station of the form.
InitialStationLoadsAll(os) == [s \in Stations |-> 0]

\* station_loads after the initialisation loop: 0 for every station present.
InitialStationLoads(os) ==
    [s \in {os[i].station : i \in 1 .. Len(os)} |-> 0]

\* EffectiveSlice that never doubles.
EffectiveSliceIgnorePeak(slice, peak) == slice

\* "if peak_hour: time_slice *= 2", once, before the loop.
EffectiveSlice(slice, peak) == IF peak THEN slice * PeakFactor ELSE slice

\* CountDispatch that marks a station as used instead of counting.
CountDispatchOnce(loads, s) == [loads EXCEPT ![s] = 1]

\* station_loads[current_order.station] += 1
CountDispatch(loads, s) == [loads EXCEPT ![s] = @ + 1]

\* The state of a round-robin run at the head of the while loop.
RREntry(os) ==
    [orders           |-> os,
     order_queue      |-> Positions(os),
     completed_orders |-> <<>>,
     current_time     |-> 0,
     station_loads    |-> InitialStationLoads(os),
     dispatch_log     |-> <<>>]

\* SliceAndRequeue that puts the order back at the head of the queue.
SliceAndRequeueFront(st, i, slice) ==
    LET o == st.orders[i]
        left == o.preparation_time - slice
    IN  [st EXCEPT
            !.orders[i].preparation_time = left,
            !.current_time = st.current_time + slice,
            !.order_queue  = <<i>> \o st.order_queue,
            !.dispatch_log = Append(st.dispatch_log,
                [order |-> i, station |-> o.station,
                 consumed |-> o.preparation_time - left, finished |-> FALSE])]

\* SliceAndRequeue that forgets to decrement preparation_time.
SliceAndRequeueNoDecrement(st, i, slice) ==
    LET o == st.orders[i]
    IN  [st EXCEPT
            !.current_time = st.current_time + slice,
            !.order_queue  = Append(st.order_queue, i),
            !.dispatch_log = Append(st.dispatch_log,
                [order |-> i, station |-> o.station,
                 consumed |-> 0, finished |-> FALSE])]

\* SliceAndRequeue that advances the clock by what is left, not by the slice.
SliceAndRequeueClockSkew(st, i, slice) ==
    LET o == st.orders[i]
        left == o.preparation_time - slice
    IN  [st EXCEPT
            !.orders[i].preparation_time = left,
            !.current_time = st.current_time + left,
            !.order_queue  = Append(st.order_queue, i),
            !.dispatch_log = Append(st.dispatch_log,
                [order |-> i, station |-> o.station,
                 consumed |-> o.preparation_time - left, finished |-> FALSE])]

\* if-branch: the order uses a whole slice and goes back to the tail.
SliceAndRequeue(st, i, slice) ==
    LET o == st.orders[i]
        left == o.preparation_time - slice
    IN  [st EXCEPT
            !.orders[i].preparation_time = left,
            !.current_time = st.current_time + slice,
            !.order_queue  = Append(st.order_queue, i),
            !.dispatch_log = Append(st.dispatch_log,
                [order |-> i, station |-> o.station,
                 consumed |-> o.preparation_time - left, finished |-> FALSE])]

\* FinishOrder that stamps the completion before advancing the clock.
FinishOrderStaleClock(st, i) ==
    LET o == st.orders[i]
        now == st.current_time + o.preparation_time
    IN  [st EXCEPT
            !.current_time = now,
            !.orders[i].completion_time = st.current_time,
            !.orders[i].wait_time = o.arrival_time,
            !.orders[i].turnaround_time = st.current_time - o.arrival_time,
            !.completed_orders = Append(st.completed_orders, i),
            !.dispatch_log = Append(st.dispatch_log,
                [order |-> i, station |-> o.station,
                 consumed |-> o.preparation_time, finished |-> TRUE])]

\* FinishOrder that also sets preparation_time to 0.
FinishOrderZeroPrep(st, i) ==
    LET o == st.orders[i]
        now == st.current_time + o.preparation_time
    IN  [st EXCEPT
            !.current_time = now,
            !.orders[i].preparation_time = 0,
            !.orders[i].completion_time = now,
            !.orders[i].wait_time = o.arrival_time,
            !.orders[i].turnaround_time = now - o.arrival_time,
            !.completed_orders = Append(st.completed_orders, i),
            !.dispatch_log = Append(st.dispatch_log,
                [order |-> i, station |-> o.station,
                 consumed |-> o.preparation_time, finished |-> TRUE])]

\* FinishOrder that leaves turnaround_time as it was.
FinishOrderNoTurnaround(st, i) ==
    LET o == st.orders[i]
        now == st.current_time + o.preparation_time
    IN  [st EXCEPT
            !.current_time = now,
            !.orders[i].completion_time = now,
            !.orders[i].wait_time = o.arrival_time,
            !.completed_orders = Append(st.completed_orders, i),
            !.dispatch_log = Append(st.dispatch_log,
                [order |-> i, station |-> o.station,
                 consumed |-> o.preparation_time, finished |-> TRUE])]

\* FinishOrder that also puts the order back on the queue.
FinishOrderAndRequeue(st, i) ==
    LET o == st.orders[i]
        now == st.current_time + o.preparation_time
    IN  [st EXCEPT
            !.current_time = now,
            !.orders[i].completion_time = now,
            !.orders[i].wait_time = o.arrival_time,
            !.orders[i].turnaround_time = now - o.arrival_time,
            !.completed_orders = Append(st.completed_orders, i),
            !.order_queue = Append(st.order_queue, i),
            !.dispatch_log = Append(st.dispatch_log,
                [order |-> i, station |-> o.station,
                 consumed |-> o.preparation_time, finished |-> TRUE])]

\* else-branch: the order uses what it has left and is completed.
FinishOrder(st, i) ==
    LET o == st.orders[i]
        now == st.current_time + o.preparation_time
    IN  [st EXCEPT
            !.current_time = now,
            !.orders[i].completion_time = now,
            !.orders[i].wait_time = o.arrival_time,
            !.orders[i].turnaround_time = now - o.arrival_time,
            !.completed_orders = Append(st.completed_orders, i),
            !.dispatch_log = Append(st.dispatch_log,
                [order |-> i, station |-> o.station,
                 consumed |-> o.preparation_time, finished |-> TRUE])]

\* RRIterate that requeues an order whose time equals the slice.
RRIterateAtLeast(st, slice) ==
    LET i  == Head(st.order_queue)
        s1 == [st EXCEPT
                 !.order_queue   = Tail(st.order_queue),
                 !.station_loads = CountDispatch(st.station_loads, st.orders[i].station),
                 !.orders[i].arrival_time = st.current_time]
    IN  IF s1.orders[i].preparation_time >= slice
        THEN SliceAndRequeue(s1, i, slice)
        ELSE FinishOrder(s1, i)

\* RRIterate that takes a slice from any order with time left.
RRIterateWhileLeft(st, slice) ==
    LET i  == Head(st.order_queue)
        s1 == [st EXCEPT
                 !.order_queue   = Tail(st.order_queue),
                 !.station_loads = CountDispatch(st.station_loads, st.orders[i].station),
                 !.orders[i].arrival_time = st.current_time]
    IN  IF s1.orders[i].preparation_time > 0
        THEN SliceAndRequeue(s1, i, slice)
        ELSE FinishOrder(s1, i)

\* RRIterate that stamps arrival_time only at an order's first dispatch.
RRIterateFirstArrival(st, slice) ==
    LET i  == Head(st.order_queue)
        first == \A k \in 1 .. Len(st.dispatch_log) : st.dispatch_log[k].order # i
        s1 == [st EXCEPT
                 !.order_queue   = Tail(st.order_queue),
                 !.station_loads = CountDispatch(st.station_loads, st.orders[i].station),
                 !.orders[i].arrival_time =
                     IF first THEN st.current_time ELSE st.orders[i].arrival_time]
    IN  IF s1.orders[i].preparation_time > slice
        THEN SliceAndRequeue(s1, i, slice)
        ELSE FinishOrder(s1, i)

\* One iteration of "while order_queue".
RRIterate(st, slice) ==
    LET i  == Head(st.order_queue)
        s1 == [st EXCEPT
                 !.order_queue   = Tail(st.order_queue),
                 !.station_loads = CountDispatch(st.station_loads, st.orders[i].station),
                 !.orders[i].arrival_time = st.current_time]
    IN  IF s1.orders[i].preparation_time > slice
        THEN SliceAndRequeue(s1, i, slice)
        ELSE FinishOrder(s1, i)

RECURSIVE RRLoop(_, _)
RRLoop(st, slice) ==
    IF st.order_queue = <<>> THEN st ELSE RRLoop(RRIterate(st, slice), slice)

\* The whole call, as a function of its arguments.
enhanced_round_robin_scheduling(os, slice, peak) ==
    RRLoop(RREntry(os), EffectiveSlice(slice, peak))

\* -------------------------------------------------------- Dispatch policy
\* SelectAlgorithm whose FCFS test is "priority < 1".
SelectAlgorithmStrict(os) ==
    IF \E i \in 1 .. Len(os) : os[i].priority = HighPriority
    THEN "priority"
    ELSE IF \A i \in 1 .. Len(os) : os[i].priority < NormalPriority
         THEN "fcfs"
         ELSE "rr"

\* The if / elif / else of the "Start Scheduling" handler.
SelectAlgorithm(os) ==
    IF \E i \in 1 .. Len(os) : os[i].priority = HighPriority
    THEN "priority"
    ELSE IF \A i \in 1 .. Len(os) : os[i].priority <= NormalPriority
         THEN "fcfs"
         ELSE "rr"

\* save_orders_to_csv(completed_orders): one row per completed order.
CsvRows(os, done) == [k \in 1 .. Len(done) |-> os[done[k]]]

\* ------------------------------------------------------------------- Init
Requests == {"app", "fcfs", "priority", "rr"}

\* The fields a request can see vary; a field its scheduler never reads is fixed.
PrepTimes(r)  == IF r \in {"fcfs", "rr"} THEN 0 .. MaxPrep ELSE 0 .. MaxBatchPrep
StationsOf(r) == IF r \in {"app", "rr"} THEN Stations ELSE {"Grill"}
PrioritiesOf(r) == IF r \in {"app", "priority"} THEN Priorities ELSE {0}
SlicesOf(r) == IF r = "rr" THEN 1 .. MaxSlice
               ELSE IF r = "app" THEN {DefaultSlice} ELSE {1}
PeaksOf(r)  == IF r \in {"app", "rr"} THEN BOOLEAN ELSE {FALSE}

\* A request r on a batch of n orders whose fields are drawn from the given sets.
Setup(r, n, PT, ST, PR, SL, PK) ==
    \E p \in [1 .. n -> PT], s \in [1 .. n -> ST], q \in [1 .. n -> PR],
       ts \in SL, pk \in PK :
        LET batch == [i \in 1 .. n |-> Order(i, "guest", "dine-in", p[i], s[i], q[i])]
        IN  /\ request = r
            /\ orders = batch
            /\ input = batch
            /\ supplied_slice = ts
            /\ time_slice = ts
            /\ peak_hour = pk
            /\ pc = "idle"
            /\ algo = "none"
            /\ current_time = 0
            /\ completed_orders = <<>>
            /\ sorted_orders = <<>>
            /\ next_i = 1
            /\ order_queue = <<>>
            /\ station_loads = <<>>
            /\ dispatch_log = <<>>
            /\ csv = IF r = "app" THEN batch ELSE <<>>

Init ==
    \E r \in Requests, n \in 0 .. MaxOrders :
        Setup(r, n, PrepTimes(r), StationsOf(r), PrioritiesOf(r), SlicesOf(r), PeaksOf(r))

\* Direct round-robin calls only, on one station.
RRInit ==
    \E n \in 0 .. MaxOrders :
        Setup("rr", n, 0 .. MaxPrep, {"Grill"}, {0}, 1 .. MaxSlice, BOOLEAN)

\* ---------------------------------------------------------------- actions
\* Entering scheduler a: its locals as they are at the head of its loop.
Enter(a) ==
    /\ algo' = a
    /\ pc' = "loop"
    /\ current_time' = 0
    /\ completed_orders' = <<>>
    /\ next_i' = 1
    /\ dispatch_log' = <<>>
    /\ sorted_orders' = CASE a = "fcfs"     -> FCFSOrder(orders)
                          [] a = "priority" -> SortedOrders(orders)
                          [] OTHER          -> <<>>
    /\ order_queue' = IF a = "rr" THEN RREntry(orders).order_queue ELSE <<>>
    /\ station_loads' = IF a = "rr" THEN RREntry(orders).station_loads ELSE <<>>
    /\ time_slice' = IF a = "rr" THEN EffectiveSlice(time_slice, peak_hour) ELSE time_slice
    /\ UNCHANGED <<orders, input, request, supplied_slice, peak_hour, csv>>

\* The "Start Scheduling" button: pick the scheduler for the whole batch.
StartScheduling ==
    /\ pc = "idle"
    /\ request = "app"
    /\ Enter(SelectAlgorithm(orders))

\* A scheduler called directly on a batch.
CallScheduler ==
    /\ pc = "idle"
    /\ request # "app"
    /\ Enter(request)

ServeNext ==
    LET i == sorted_orders[next_i]
    IN  /\ orders' = [orders EXCEPT ![i] = FullService(orders[i], current_time)]
        /\ current_time' = current_time + orders[i].preparation_time
        /\ completed_orders' = Append(completed_orders, i)
        /\ next_i' = next_i + 1
        /\ UNCHANGED <<input, request, supplied_slice, peak_hour, time_slice, pc, algo,
                       sorted_orders, order_queue, station_loads, dispatch_log, csv>>

FCFSStep ==
    /\ pc = "loop"
    /\ algo = "fcfs"
    /\ next_i <= Len(sorted_orders)
    /\ ServeNext

PriorityStep ==
    /\ pc = "loop"
    /\ algo = "priority"
    /\ next_i <= Len(sorted_orders)
    /\ ServeNext

RRState ==
    [orders           |-> orders,
     order_queue      |-> order_queue,
     completed_orders |-> completed_orders,
     current_time     |-> current_time,
     station_loads    |-> station_loads,
     dispatch_log     |-> dispatch_log]

RRStep ==
    /\ pc = "loop"
    /\ algo = "rr"
    /\ order_queue # <<>>
    /\ current_time <= MaxClock
    /\ LET st == RRIterate(RRState, time_slice)
       IN  /\ orders' = st.orders
           /\ order_queue' = st.order_queue
           /\ completed_orders' = st.completed_orders
           /\ current_time' = st.current_time
           /\ station_loads' = st.station_loads
           /\ dispatch_log' = st.dispatch_log
    /\ UNCHANGED <<input, request, supplied_slice, peak_hour, time_slice, pc, algo,
                   sorted_orders, next_i, csv>>

\* The loop is exhausted: the scheduler returns its completed list.
Return ==
    /\ pc = "loop"
    /\ IF algo = "rr" THEN order_queue = <<>> ELSE next_i > Len(sorted_orders)
    /\ pc' = "returned"
    /\ UNCHANGED <<orders, input, request, supplied_slice, peak_hour, time_slice, algo,
                   current_time, completed_orders, sorted_orders, next_i, order_queue,
                   station_loads, dispatch_log, csv>>

\* The handler saves what the scheduler returned.
SaveOrders ==
    /\ pc = "returned"
    /\ request = "app"
    /\ csv' = CsvRows(orders, completed_orders)
    /\ pc' = "saved"
    /\ UNCHANGED <<orders, input, request, supplied_slice, peak_hour, time_slice, algo,
                   current_time, completed_orders, sorted_orders, next_i, order_queue,
                   station_loads, dispatch_log>>

Next ==
    \/ StartScheduling
    \/ CallScheduler
    \/ FCFSStep
    \/ PriorityStep
    \/ RRStep
    \/ Return
    \/ SaveOrders

Spec == Init /\ [][Next]_vars

\* A direct round-robin call.  It is synchronous and single-threaded, so it
\* keeps running: every step that can be taken is taken.
RRNext ==
    \/ CallScheduler
    \/ RRStep
    \/ Return

RRFairSpec == RRInit /\ [][RRNext]_vars /\ WF_vars(RRNext)

\* ---------------------------------------------------------------- helpers
Returned == pc \in {"returned", "saved"}
AllPositive(os) == \A i \in 1 .. Len(os) : os[i].preparation_time > 0

RECURSIVE PrefixSum(_, _)
PrefixSum(os, k) == IF k = 0 THEN 0 ELSE PrefixSum(os, k - 1) + os[k].preparation_time

RECURSIVE SumConsumed(_)
SumConsumed(log) == IF log = <<>> THEN 0 ELSE Head(log).consumed + SumConsumed(Tail(log))

\* Number of dequeues of orders of station s so far.
DispatchesAt(log, s) == Cardinality({k \in 1 .. Len(log) : log[k].station = s})

StationsIn(os) == {os[i].station : i \in 1 .. Len(os)}

InSeq(x, s) == \E k \in 1 .. Len(s) : s[k] = x

\* The orders dequeued at least once and not completed: round-robin orders
\* waiting, between two dispatches, for their next slice.
InFlight(i) == InSeq(i, order_queue) /\ \E k \in 1 .. Len(dispatch_log) : dispatch_log[k].order = i

TimingConsistent(o) ==
    /\ o.completion_time >= o.arrival_time
    /\ o.turnaround_time = o.completion_time - o.arrival_time

\* Index in the log of the last dispatch of order i (0 if none).
LastDispatch(log, i) ==
    LET ks == {k \in 1 .. Len(log) : log[k].order = i}
    IN  IF ks = {} THEN 0 ELSE CHOOSE k \in ks : \A m \in ks : m <= k

FirstDispatch(log, i) ==
    LET ks == {k \in 1 .. Len(log) : log[k].order = i}
    IN  IF ks = {} THEN 0 ELSE CHOOSE k \in ks : \A m \in ks : m >= k

\* The clock at dispatch k: what the dispatches before it consumed.
ClockAt(log, k) == SumConsumed(SubSeq(log, 1, k - 1))

\* Number of dequeues of order i so far.
DispatchesOf(log, i) == Cardinality({k \in 1 .. Len(log) : log[k].order = i})

\* Number of times order i was requeued.
RequeuesOf(log, i) == Cardinality({k \in 1 .. Len(log) : log[k].order = i /\ ~log[k].finished})

\* ceil(p / s) for p >= 0, s > 0.
CeilDiv(p, s) == (p + s - 1) \div s

FrameFields(o) == <<o.order_id, o.customer_name, o.order_type, o.station, o.priority>>

TypeOK ==
    /\ pc \in {"idle", "loop", "returned", "saved"}
    /\ algo \in {"none", "fcfs", "priority", "rr"}
    /\ current_time \in 0 .. MaxClock
    /\ Len(orders) = Len(input)

\* ----------------------------------------------------------------- claims

\* C1: after an FCFS run over orders with positive preparation times p1..pn,
\* order i has arrival_time = p1+...+p(i-1), completion_time = p1+...+pi and
\* wait_time = arrival_time.
FCFSTiming ==
    (algo = "fcfs" /\ Returned /\ AllPositive(input)) =>
        \A i \in 1 .. Len(orders) :
            /\ orders[i].arrival_time = PrefixSum(input, i - 1)
            /\ orders[i].completion_time = PrefixSum(input, i)
            /\ orders[i].wait_time = orders[i].arrival_time

FCFSTimingWitness ==
    /\ request = "fcfs" /\ algo = "fcfs" /\ pc = "returned"
    /\ Len(input) = 2
    /\ input[1].preparation_time = 8 /\ input[2].preparation_time = 5
    /\ orders[1].arrival_time = 0 /\ orders[1].completion_time = 8
    /\ orders[2].arrival_time = 8 /\ orders[2].completion_time = 13

\* C2: the completed list FCFS returns holds exactly the input orders, in the
\* input order: same length, and position i of it is the order at position i
\* of the input.
FCFSOrderPreserved ==
    (algo = "fcfs" /\ Returned) =>
        /\ Len(completed_orders) = Len(input)
        /\ \A i \in 1 .. Len(input) :
              /\ completed_orders[i] = i
              /\ orders[completed_orders[i]].order_id = input[i].order_id

FCFSOrderPreservedWitness ==
    /\ algo = "fcfs" /\ pc = "returned"
    /\ Len(input) = 2
    /\ input[1].preparation_time > input[2].preparation_time
    /\ completed_orders = <<1, 2>>

\* C3: after a Priority run, an order of higher priority is completed no later
\* than any order of lower priority is dispatched.
PriorityPrecedence ==
    (algo = "priority" /\ Returned) =>
        \A a, b \in 1 .. Len(orders) :
            orders[a].priority > orders[b].priority =>
                orders[a].completion_time <= orders[b].arrival_time

PriorityPrecedenceWitness ==
    /\ algo = "priority" /\ pc = "returned"
    /\ Len(input) = 2
    /\ input[2].priority > input[1].priority
    /\ AllPositive(input)
    /\ orders[1].arrival_time = orders[2].completion_time
    /\ orders[1].arrival_time > 0

\* C4: the completed list of a Priority run is in descending priority, and two
\* orders of equal priority keep their input order in it.
PriorityStable ==
    (algo = "priority" /\ Returned) =>
        /\ Len(completed_orders) = Len(input)
        /\ {completed_orders[k] : k \in 1 .. Len(completed_orders)} = 1 .. Len(input)
        /\ \A j, k \in 1 .. Len(completed_orders) :
              j < k =>
                /\ orders[completed_orders[j]].priority >= orders[completed_orders[k]].priority
                /\ orders[completed_orders[j]].priority = orders[completed_orders[k]].priority
                      => completed_orders[j] < completed_orders[k]

PriorityStableWitness ==
    /\ algo = "priority" /\ pc = "returned"
    /\ Len(input) = 2
    /\ input[1].priority = input[2].priority
    /\ AllPositive(input)
    /\ completed_orders = <<1, 2>>
    /\ orders[2].arrival_time = orders[1].completion_time

\* C5: a round-robin run over orders with positive preparation times and a
\* positive time_slice (peak hour or not) reaches the end of its loop: the
\* queue becomes empty and the call returns.
RRTerminates ==
    (algo = "rr" /\ pc = "loop" /\ AllPositive(input))
        ~> (pc = "returned" /\ order_queue = <<>>)

RRTerminatesWitness ==
    /\ algo = "rr" /\ pc = "returned" /\ order_queue = <<>>
    /\ AllPositive(input)
    /\ peak_hour
    /\ Len(input) = 2
    /\ Len(dispatch_log) > 3

\* C6: in a round-robin run over positive preparation times the clock starts
\* at 0 and is always the sum of what the dispatches so far consumed; on return
\* that sum is the sum of the original preparation times.
RRConservation ==
    (algo = "rr" /\ AllPositive(input)) =>
        /\ current_time = SumConsumed(dispatch_log)
        /\ (dispatch_log = <<>> => current_time = 0)
        /\ (Returned => current_time = PrefixSum(input, Len(input)))

RRConservationWitness ==
    /\ algo = "rr" /\ pc = "returned"
    /\ AllPositive(input)
    /\ Len(input) = 2
    /\ \E k \in 1 .. Len(dispatch_log) : ~dispatch_log[k].finished
    /\ current_time = input[1].preparation_time + input[2].preparation_time
    /\ current_time > 10

\* C7: the keys of station_loads are exactly the stations of the input, all 0
\* before the first dequeue, and station_loads[s] is the number of dequeues
\* (re-dispatches included) of orders of station s, during the run and on return.
RRLoadCounting ==
    (algo = "rr") =>
        /\ DOMAIN station_loads = StationsIn(input)
        /\ \A s \in DOMAIN station_loads :
              station_loads[s] = DispatchesAt(dispatch_log, s)
        /\ (dispatch_log = <<>> => \A s \in DOMAIN station_loads : station_loads[s] = 0)

RRLoadCountingWitness ==
    /\ algo = "rr" /\ pc = "returned"
    /\ Len(input) = 2
    /\ input[1].station = "Grill" /\ input[2].station = "Fryers"
    /\ station_loads["Grill"] = 3 /\ station_loads["Fryers"] = 1

\* The batch of the worked scenario: preparation times 8 and 3 at one station,
\* time_slice 5, no peak hour.
RRScenario ==
    /\ request = "rr"
    /\ Len(input) = 2
    /\ input[1].preparation_time = 8 /\ input[2].preparation_time = 3
    /\ input[1].station = "Grill" /\ input[2].station = "Grill"
    /\ supplied_slice = 5 /\ ~peak_hour

\* C8 as stated: in the scenario order 2 completes first at 13, order 1 at 16,
\* and the station's load is 3.
RRScenarioAsStated ==
    (RRScenario /\ Returned) =>
        /\ completed_orders = <<2, 1>>
        /\ orders[2].completion_time = 13
        /\ orders[1].completion_time = 16
        /\ station_loads["Grill"] = 3

\* C8 (amended): in the scenario order 2 completes first at 8, order 1
\* completes at 11, and the station's load is 3.
RRScenarioResult ==
    (RRScenario /\ Returned) =>
        /\ completed_orders = <<2, 1>>
        /\ orders[2].completion_time = 8
        /\ orders[1].completion_time = 11
        /\ station_loads["Grill"] = 3

RRScenarioWitness ==
    /\ RRScenario /\ pc = "returned"
    /\ Len(dispatch_log) = 3
    /\ orders[2].arrival_time = 5

\* C9: a peak-hour run with time_slice s uses the slice 2*s at every step of
\* the run, and returns the completed list, orders (stamps and residual
\* preparation times) and station loads of a run without peak hour and
\* time_slice 2*s on the same batch.
PeakScaling ==
    (algo = "rr" /\ peak_hour) =>
        /\ time_slice = 2 * supplied_slice
        /\ Returned =>
              LET ref == enhanced_round_robin_scheduling(input, 2 * supplied_slice, FALSE)
              IN  /\ completed_orders = ref.completed_orders
                  /\ orders = ref.orders
                  /\ station_loads = ref.station_loads

PeakScalingWitness ==
    /\ algo = "rr" /\ pc = "returned" /\ peak_hour
    /\ supplied_slice = 2 /\ time_slice = 4
    /\ Len(input) = 2
    /\ input[1].preparation_time = 7 /\ input[2].preparation_time = 4
    /\ completed_orders = <<2, 1>>
    /\ orders[1].preparation_time = 3

\* C10: for a batch with priorities in {0,1,2} the Start Scheduling request
\* runs one scheduler over the whole batch: Priority if some order has
\* priority 2, FCFS otherwise, and never round-robin.
DispatchSelection ==
    (request = "app" /\ pc # "idle" /\ \A i \in 1 .. Len(input) : input[i].priority \in {0, 1, 2}) =>
        /\ algo = (IF \E i \in 1 .. Len(input) : input[i].priority = 2
                   THEN "priority" ELSE "fcfs")
        /\ algo # "rr"
        /\ order_queue = <<>> /\ dispatch_log = <<>> /\ station_loads = <<>>
        /\ (Returned => Len(completed_orders) = Len(input))

DispatchSelectionWitness ==
    /\ request = "app" /\ pc = "saved"
    /\ Len(input) = 2
    /\ input[1].priority = 1 /\ input[2].priority = 0
    /\ supplied_slice = 5
    /\ algo = "fcfs"
    /\ completed_orders = <<1, 2>>

\* C11 as stated: when some order of the batch has a non-positive
\* preparation_time, the scheduler fails the request: the call does not return
\* a completed list and no such order is stamped as completed.
InvalidPreparationTimeRejected ==
    (~AllPositive(input)) =>
        /\ ~Returned
        /\ \A k \in 1 .. Len(completed_orders) :
              input[completed_orders[k]].preparation_time > 0

\* C12: scheduling an empty batch returns normally with an empty completed
\* list, for round-robin also an empty load map, and changes nothing else.
EmptyBatch ==
    (Len(input) = 0 /\ Returned) =>
        /\ completed_orders = <<>>
        /\ orders = input
        /\ current_time = 0
        /\ dispatch_log = <<>>
        /\ (algo = "rr" => DOMAIN station_loads = {})

EmptyBatchWitness ==
    /\ Len(input) = 0
    /\ request = "rr" /\ algo = "rr" /\ pc = "returned"
    /\ peak_hour

\* C13: in a run started from positive preparation times no preparation_time
\* is ever negative, and a step lowers an order's preparation_time only in
\* round-robin and only when it exceeds the effective slice.
PrepNeverNegative ==
    /\ [](AllPositive(input) =>
            \A i \in 1 .. Len(orders) : orders[i].preparation_time >= 0)
    /\ [][AllPositive(input) =>
            \A i \in 1 .. Len(orders) :
                orders'[i].preparation_time # orders[i].preparation_time =>
                    /\ algo = "rr"
                    /\ orders[i].preparation_time > time_slice
                    /\ orders'[i].preparation_time = orders[i].preparation_time - time_slice]_vars

PrepNeverNegativeWitness ==
    /\ algo = "rr" /\ pc = "loop"
    /\ AllPositive(input)
    /\ Len(input) = 2
    /\ input[1].preparation_time = 7 /\ time_slice = 3
    /\ orders[1].preparation_time = 1
    /\ order_queue = <<1>>

\* C14 as stated: in every state of every run every order has
\* completion_time >= arrival_time and turnaround_time = completion_time - arrival_time.
TimingAlwaysConsistent ==
    \A i \in 1 .. Len(orders) : TimingConsistent(orders[i])

\* C14 (amended): the two timing invariants hold in every state of an FCFS or
\* Priority run, and in a round-robin run for every order that has not been
\* dispatched yet or has been completed, so for every order on return.
TimingConsistentUnlessInFlight ==
    /\ \A i \in 1 .. Len(orders) : ~InFlight(i) => TimingConsistent(orders[i])
    /\ (algo # "rr" \/ Returned) => \A i \in 1 .. Len(orders) : ~InFlight(i)

TimingConsistentWitness ==
    /\ algo = "rr" /\ pc = "returned"
    /\ Len(input) = 2
    /\ Len(dispatch_log) = 4
    /\ orders[1].arrival_time > 0 /\ orders[1].turnaround_time > 0
    /\ orders[2].arrival_time > 0 /\ orders[2].turnaround_time > 0

\* C15: in round-robin a completed order is never on the queue again and no
\* later step changes it or removes it from the completed list; the completed
\* list has no duplicates and on return holds every input order.
CompletionFinal ==
    /\ [](algo = "rr" =>
            /\ \A i \in 1 .. Len(orders) : ~(InSeq(i, completed_orders) /\ InSeq(i, order_queue))
            /\ \A j, k \in 1 .. Len(completed_orders) :
                  completed_orders[j] = completed_orders[k] => j = k
            /\ (Returned => {completed_orders[k] : k \in 1 .. Len(completed_orders)}
                               = 1 .. Len(input)))
    /\ [][algo = "rr" =>
            \A i \in 1 .. Len(orders) :
                InSeq(i, completed_orders) =>
                    /\ orders'[i] = orders[i]
                    /\ InSeq(i, completed_orders')
                    /\ ~InSeq(i, order_queue')]_vars

CompletionFinalWitness ==
    /\ algo = "rr" /\ pc = "loop"
    /\ Len(input) = 2
    /\ completed_orders = <<2>>
    /\ order_queue = <<1>>
    /\ Len(dispatch_log) = 3

\* C16: every round-robin dispatch sets the order's arrival_time to the clock
\* at that dispatch; on return arrival_time and wait_time are the clock at the
\* order's last dispatch and turnaround_time is what that dispatch consumed.
ArrivalOverwrite ==
    /\ [][(algo = "rr" /\ Len(dispatch_log') = Len(dispatch_log) + 1) =>
            orders'[dispatch_log'[Len(dispatch_log')].order].arrival_time = current_time]_vars
    /\ []((algo = "rr" /\ Returned) =>
            \A i \in 1 .. Len(orders) :
                LET k == LastDispatch(dispatch_log, i)
                IN  /\ k > 0
                    /\ orders[i].arrival_time = ClockAt(dispatch_log, k)
                    /\ orders[i].wait_time = orders[i].arrival_time
                    /\ orders[i].turnaround_time = dispatch_log[k].consumed)

ArrivalOverwriteWitness ==
    /\ algo = "rr" /\ pc = "returned"
    /\ Len(input) = 2
    /\ LastDispatch(dispatch_log, 1) > FirstDispatch(dispatch_log, 1)
    /\ orders[1].arrival_time # ClockAt(dispatch_log, FirstDispatch(dispatch_log, 1))
    /\ orders[1].turnaround_time < input[1].preparation_time

\* C17: on return from a round-robin run over positive preparation times an
\* order's last dispatch consumed exactly its preparation_time, which is at
\* most the effective slice; an order of original time p requeued k times is
\* left with p - k*slice, a value in 1..slice.
ExitRemainder ==
    (algo = "rr" /\ Returned /\ AllPositive(input)) =>
        \A i \in 1 .. Len(orders) :
            LET k == RequeuesOf(dispatch_log, i)
                last == dispatch_log[LastDispatch(dispatch_log, i)]
            IN  /\ last.finished
                /\ last.consumed = orders[i].preparation_time
                /\ orders[i].preparation_time = input[i].preparation_time - k * time_slice
                /\ orders[i].preparation_time \in 1 .. time_slice

ExitRemainderWitness ==
    /\ algo = "rr" /\ pc = "returned"
    /\ AllPositive(input)
    /\ Len(input) = 2
    /\ input[1].preparation_time = 8 /\ time_slice = 3
    /\ RequeuesOf(dispatch_log, 1) = 2
    /\ orders[1].preparation_time = 2

\* C18: FCFS and Priority leave preparation_time, priority, station,
\* order_type and the identity fields of every order unchanged; round-robin
\* leaves all of these but preparation_time unchanged; the list passed in keeps
\* its length and its orders their positions.
SchedulerFrame ==
    /\ Len(orders) = Len(input)
    /\ \A i \in 1 .. Len(orders) :
          /\ FrameFields(orders[i]) = FrameFields(input[i])
          /\ orders[i].order_id = i
          /\ algo \in {"fcfs", "priority"} =>
                orders[i].preparation_time = input[i].preparation_time

SchedulerFrameWitness ==
    /\ algo = "priority" /\ pc = "returned"
    /\ Len(input) = 2
    /\ input[1].priority < input[2].priority
    /\ input[1].preparation_time = 2 /\ input[2].preparation_time = 1
    /\ orders[1].completion_time = 3
    /\ completed_orders = <<2, 1>>

\* C19: in a round-robin run over positive preparation times an order of
\* original time p is dequeued exactly ceil(p / slice) times, and the completed
\* list is the input sorted by that number, ties in input order.
RRCompletionOrder ==
    (algo = "rr" /\ Returned /\ AllPositive(input)) =>
        /\ Len(completed_orders) = Len(input)
        /\ \A i \in 1 .. Len(input) :
              DispatchesOf(dispatch_log, i) = CeilDiv(input[i].preparation_time, time_slice)
        /\ \A j, k \in 1 .. Len(completed_orders) :
              j < k =>
                LET a == completed_orders[j]
                    b == completed_orders[k]
                    na == CeilDiv(input[a].preparation_time, time_slice)
                    nb == CeilDiv(input[b].preparation_time, time_slice)
                IN  na < nb \/ (na = nb /\ a < b)

RRCompletionOrderWitness ==
    /\ algo = "rr" /\ pc = "returned"
    /\ AllPositive(input)
    /\ Len(input) = 2
    /\ input[1].preparation_time = 7 /\ input[2].preparation_time = 4 /\ time_slice = 2
    /\ DispatchesOf(dispatch_log, 1) = 4 /\ DispatchesOf(dispatch_log, 2) = 2
    /\ completed_orders = <<2, 1>>

\* C20: when every preparation_time of the batch is positive and at most the
\* effective slice, round-robin returns the completed list and the orders
\* (stamps and unchanged preparation times) that fcfs_scheduler returns on the
\* batch, and each station's load is its number of orders.
RRDegeneratesToFCFS ==
    (algo = "rr" /\ Returned
        /\ \A i \in 1 .. Len(input) :
              input[i].preparation_time > 0 /\ input[i].preparation_time <= time_slice) =>
        LET ref == fcfs_scheduler(input)
        IN  /\ completed_orders = ref.completed_orders
            /\ orders = ref.orders
            /\ \A i \in 1 .. Len(orders) :
                  orders[i].preparation_time = input[i].preparation_time
            /\ \A s \in DOMAIN station_loads :
                  station_loads[s] = Cardinality({i \in 1 .. Len(input) : input[i].station = s})

RRDegeneratesToFCFSWitness ==
    /\ algo = "rr" /\ pc = "returned"
    /\ Len(input) = 2
    /\ input[1].preparation_time = 4 /\ input[2].preparation_time = 2
    /\ input[1].station = "Grill" /\ input[2].station = "Grill"
    /\ time_slice = 4 /\ peak_hour
    /\ orders[2].arrival_time = 4 /\ orders[2].completion_time = 6
    /\ station_loads["Grill"] = 2

\* The stepwise FCFS run ends in what fcfs_scheduler computes.
FCFSRunMatchesFunction ==
    (algo = "fcfs" /\ Returned) =>
        LET ref == fcfs_scheduler(input)
        IN  /\ orders = ref.orders
            /\ completed_orders = ref.completed_orders
            /\ current_time = ref.current_time

====
